---- MODULE Spec2Model ----
(***************************************************************************)
(* Connection store of the database-connection manager                    *)
(* (databaseConnections.js): the in-memory list savedConnections, the      *)
(* process-local map connectionStatuses and the JSON file                  *)
(* db-connections.json, with the exported operations that read and write   *)
(* them.                                                                   *)
(*                                                                         *)
(* JavaScript values are modelled as strings; an object is a function from *)
(* its own keys to values, so that a key holding undefined and a missing   *)
(* key are different objects that read the same.                           *)
(***************************************************************************)
EXTENDS Integers, Sequences, FiniteSets, TLC

VARIABLES savedConnections, connectionStatuses, file, nextId, now, lastCall,
          removed, acked, writeFailures, pending, invoked

vars == <<savedConnections, connectionStatuses, file, nextId, now, lastCall,
          removed, acked, writeFailures, pending, invoked>>

(* ---------------------------- bounds ----------------------------------- *)
MaxIds == 2
MaxClock == 0
MaxWriteFailures == 1
MaxPending == 2
MaxInvoked == 3

(* ------------------------- JavaScript values --------------------------- *)
Undefined == "undefined"
Null == "null"
PASSWORD_PLACEHOLDER == "***SAVED***"
NoArg == "-"

Get(o, k) == IF k \in DOMAIN o THEN o[k] ELSE Undefined

Truthy(v) == v \notin {Undefined, Null, ""}

ObjectAssign(target, source) ==
  [k \in (DOMAIN target) \cup (DOMAIN source) |->
     IF k \in DOMAIN source THEN source[k] ELSE target[k]]

DropUndefined(o) == [k \in {x \in DOMAIN o : o[x] # Undefined} |-> o[k]]

JsonRoundTripConnection(conn) ==
  LET kept == {k \in DOMAIN conn : k = "config" \/ conn[k] # Undefined}
  IN  [k \in kept |-> IF k = "config" THEN DropUndefined(conn[k]) ELSE conn[k]]

JsonRoundTrip(connections) ==
  [i \in 1..Len(connections) |-> JsonRoundTripConnection(connections[i])]

IdsOf(connections) == {Get(connections[i], "id") : i \in 1..Len(connections)}

FindIndex(connections, connectionId) ==
  LET hits == {i \in 1..Len(connections) : Get(connections[i], "id") = connectionId}
  IN  IF hits = {} THEN 0 ELSE CHOOSE i \in hits : \A j \in hits : i <= j

(* ------------------------------ inputs --------------------------------- *)
DB_TYPES == [MSSQL |-> "mssql", MYSQL |-> "mysql", POSTGRESQL |-> "postgresql",
             MONGODB |-> "mongodb", ORACLE |-> "oracle", SQLITE |-> "sqlite"]

TimeStamp(t) == <<"t0", "t1", "t2", "t3", "t4">>[t + 1]

ConnectionInputs ==
  { [name |-> "X", type |-> "mysql",
     config |-> [host |-> "localhost", password |-> "p1"]],
    [name |-> Undefined, type |-> "oracle",
     config |-> [host |-> "db", password |-> ""]] }

UpdateInputs ==
  { [id |-> "conn_0", createdAt |-> "t9", name |-> "Z",
     config |-> [host |-> "localhost", password |-> "p2"]] }

WriteOutcomes == {"ok", "EACCES", "ENOSPC"}
DriverOutcomes == {"connected", "refused", "queryFails"}

(* --------------------------- the JSON file ----------------------------- *)
loadSavedConnectionsResetting(connections, f) ==
  IF f.kind = "json" THEN f.data ELSE << >>

loadSavedConnections(connections, f) ==
  IF f.kind = "json" THEN f.data
  ELSE IF f.kind = "ENOENT" THEN << >>
  ELSE connections

saveSavedConnections(connections, f, outcome) ==
  IF outcome = "ok" THEN [kind |-> "json", data |-> JsonRoundTrip(connections)]
  ELSE IF outcome = "EACCES" THEN f
  ELSE [kind |-> "corrupt", data |-> << >>]

(* --------------------------- pure helpers ------------------------------ *)
sanitizeUnmasked(connections) == connections

sanitizeConnectionsForRenderer(connections) ==
  [i \in 1..Len(connections) |->
     ObjectAssign(connections[i],
       [config |-> ObjectAssign(connections[i].config,
          [password |-> IF Truthy(Get(connections[i].config, "password"))
                        THEN PASSWORD_PLACEHOLDER ELSE Undefined])])]

generateConnectionId(n) == <<"conn_1", "conn_2", "conn_3", "conn_4", "conn_5">>[n]

IdPool == {generateConnectionId(n) : n \in 1..MaxIds}

NewConnectionTested(connectionData, id, t) ==
  [id |-> id,
   name |-> Get(connectionData, "name"),
   type |-> Get(connectionData, "type"),
   config |-> Get(connectionData, "config"),
   createdAt |-> TimeStamp(t),
   lastTested |-> TimeStamp(t)]

NewConnection(connectionData, id, t) ==
  [id |-> id,
   name |-> Get(connectionData, "name"),
   type |-> Get(connectionData, "type"),
   config |-> Get(connectionData, "config"),
   createdAt |-> TimeStamp(t),
   lastTested |-> Null]

NotFoundResult == [success |-> FALSE, error |-> "Connection not found"]

ErrorResultNoMessage(outcome) == [success |-> FALSE, error |-> Undefined]

ErrorResult(outcome) == [success |-> FALSE, error |-> outcome]

NotTestedYet == [success |-> Null, message |-> "Not tested yet"]

getConnectionStatus(statuses, connectionId) ==
  IF connectionId \in DOMAIN statuses THEN statuses[connectionId] ELSE NotTestedYet

StatusDeleteSkipped(statuses, connectionId) == statuses

StatusDelete(statuses, connectionId) ==
  [k \in (DOMAIN statuses) \ {connectionId} |-> statuses[k]]

StatusSetOnly(statuses, connectionId, st) == [k \in {connectionId} |-> st]

StatusSet(statuses, connectionId, st) ==
  [k \in (DOMAIN statuses) \cup {connectionId} |->
     IF k = connectionId THEN st ELSE statuses[k]]

Splice(connections, index) ==
  [i \in 1..(Len(connections) - 1) |->
     IF i < index THEN connections[i] ELSE connections[i + 1]]

UpdatedConnectionUnpinned(connection, updates, connectionId) ==
  ObjectAssign(connection, updates)

UpdatedConnection(connection, updates, connectionId) ==
  ObjectAssign(connection,
    ObjectAssign(updates, [id |-> connectionId,
                           createdAt |-> Get(connection, "createdAt")]))

ReplaceAt(connections, index, conn) ==
  [i \in 1..Len(connections) |-> IF i = index THEN conn ELSE connections[i]]

(* --------------------------- driver adapters --------------------------- *)
(* A driver call either returns or throws an error object {code, message}.  *)
(* A script d fixes what each call of one test does: whether the driver     *)
(* package can be required, the outcome of each connect attempt, of the     *)
(* query and of the close/end call.  String.includes is modelled by         *)
(* membership in the set of the messages that contain the substring.        *)
Ok == [thrown |-> FALSE]

Err(code, message) == [thrown |-> TRUE, code |-> code, message |-> message]

AccessDeniedMessages == {"Access denied for user 'root'@'localhost'"}

IsAccessDenied(err) ==
  err.code = "ER_ACCESS_DENIED_ERROR"
    \/ (Truthy(err.message) /\ err.message \in AccessDeniedMessages)

OrElse(v, d) == IF Truthy(v) THEN v ELSE d

EmptyObject == [k \in {} |-> Undefined]

SuccessResult(serverName) ==
  [success |-> TRUE, message |-> "Connection successful",
   serverInfo |-> [serverName |-> serverName]]

FailureResult(error) ==
  [success |-> FALSE, error |-> OrElse(error.message, "Connection failed"),
   code |-> error.code]

testMssqlConnection(config, d) ==
  IF d.connect[1].thrown THEN FailureResult(d.connect[1])
  ELSE IF d.query.thrown THEN FailureResult(d.query)
  ELSE SuccessResult(Get(config, "server"))

MysqlHintBase ==
  <<"Confirm in terminal: mysql -h 127.0.0.1 -u root -p",
    "Remove this connection in the app, then Add connection again",
    "MySQL 8.0: ALTER USER ... IDENTIFIED WITH mysql_native_password",
    "Or create a new user">>

getMysqlAccessDeniedHintEmpty(errorMessage, triedHosts) == << >>

getMysqlAccessDeniedHint(errorMessage, triedHosts) ==
  IF Len(triedHosts) > 0
  THEN <<"Tried host(s): all failed.">> \o MysqlHintBase
  ELSE MysqlHintBase

MysqlHostsToTry(config) ==
  LET host == OrElse(Get(config, "host"), "localhost")
  IN  IF host \in {"localhost", "127.0.0.1"} THEN <<"127.0.0.1", "localhost">>
      ELSE <<host>>

(* The connect loop: the index of the attempt that ends it.  It goes on to  *)
(* the next host only after an access-denied error.                         *)
RECURSIVE MysqlLastAttempt(_, _, _)
MysqlLastAttempt(hostsToTry, d, k) ==
  IF d.connect[k].thrown /\ IsAccessDenied(d.connect[k]) /\ k < Len(hostsToTry)
  THEN MysqlLastAttempt(hostsToTry, d, k + 1)
  ELSE k

MysqlCatchResult(error) ==
  ObjectAssign(FailureResult(error),
    IF IsAccessDenied(error)
    THEN [hint |-> getMysqlAccessDeniedHint(error.message, << >>)]
    ELSE EmptyObject)

testMysqlConnection(config, d) ==
  IF ~d.installed
  THEN [success |-> FALSE,
        error |-> "MySQL driver not installed. Please install mysql2 package."]
  ELSE IF Get(config, "password") = PASSWORD_PLACEHOLDER
  THEN [success |-> FALSE, error |-> "Saved password is masked (***SAVED***).",
        code |-> "PASSWORD_MASKED",
        hint |-> <<"This connection was saved with a masked password placeholder.",
                   "Remove the connection in the app and add it again">>]
  ELSE
    LET hostsToTry == MysqlHostsToTry(config)
        k == MysqlLastAttempt(hostsToTry, d, 1)
        lastError == d.connect[k]
    IN  IF lastError.thrown
        THEN [success |-> FALSE,
              error |-> OrElse(lastError.message, "Connection failed"),
              code |-> lastError.code,
              hint |-> getMysqlAccessDeniedHint(lastError.message, hostsToTry),
              triedHosts |-> hostsToTry]
        ELSE IF d.query.thrown THEN MysqlCatchResult(d.query)
        ELSE IF d.close.thrown THEN MysqlCatchResult(d.close)
        ELSE SuccessResult(hostsToTry[k])

testPostgresqlConnection(config, d) ==
  IF ~d.installed
  THEN [success |-> FALSE,
        error |-> "PostgreSQL driver not installed. Please install pg package."]
  ELSE IF d.connect[1].thrown THEN FailureResult(d.connect[1])
  ELSE IF d.query.thrown THEN FailureResult(d.query)
  ELSE IF d.close.thrown THEN FailureResult(d.close)
  ELSE SuccessResult(Get(config, "host"))

testMongodbConnection(config, d) ==
  IF ~d.installed
  THEN [success |-> FALSE,
        error |-> "MongoDB driver not installed. Please install mongodb package."]
  ELSE IF d.connect[1].thrown THEN FailureResult(d.connect[1])
  ELSE IF d.query.thrown THEN FailureResult(d.query)
  ELSE IF d.close.thrown THEN FailureResult(d.close)
  ELSE SuccessResult(Get(config, "host"))

(* The connection string is config.odbcConnectionString or the join of the  *)
(* DBN, DSN, UID and PWD parts that are set; only its emptiness matters.    *)
OdbcHasConnectionString(config) ==
  \E k \in {"odbcConnectionString", "DBN", "DSN", "username", "password"} :
    Truthy(Get(config, k))

OdbcServerName(config) ==
  OrElse(Get(config, "DSN"), OrElse(Get(config, "server"), "N/A"))

OdbcSuccess(config, message) ==
  [success |-> TRUE, message |-> message,
   serverInfo |-> [serverName |-> OdbcServerName(config)]]

(* 32-bit bridge: the PowerShell child either exits 0 (exec resolves) or    *)
(* not (exec rejects); d.lines are the marker lines of its output.          *)
BridgeGeneralHints ==
  <<"Verify DSN exists in ODBC Data Source Administrator (32-bit).",
    "Open Windows Start, search for ODBC Data Sources (32-bit).",
    "Ensure Eaglesoft application can connect to the database.">>

BridgeHints(d) ==
  IF "HINT" \in d.lines THEN <<d.hintLine>> ELSE BridgeGeneralHints

testOdbcConnection32BitByExitCode(config, d) ==
  IF ~OdbcHasConnectionString(config)
  THEN [success |-> FALSE, error |-> "Missing ODBC connection string information"]
  ELSE IF d.exec = "rejected"
  THEN [success |-> FALSE,
        error |-> OrElse(d.message, "Failed to execute 32-bit PowerShell ODBC test"),
        hint |-> BridgeHints(d)]
  ELSE IF "SUCCESS" \in d.lines
  THEN OdbcSuccess(config, "ODBC connection successful (via 32-bit PowerShell)")
  ELSE IF "ERROR" \in d.lines
  THEN [success |-> FALSE, error |-> d.errorLine, hint |-> BridgeHints(d)]
  ELSE [success |-> FALSE, error |-> "Unexpected response from ODBC test",
        output |-> d.lines]

testOdbcConnection32Bit(config, d) ==
  IF ~OdbcHasConnectionString(config)
  THEN [success |-> FALSE, error |-> "Missing ODBC connection string information"]
  ELSE IF "SUCCESS" \in d.lines
  THEN OdbcSuccess(config, "ODBC connection successful (via 32-bit PowerShell)")
  ELSE IF "ERROR" \in d.lines
  THEN IF d.exec = "resolved"
       THEN [success |-> FALSE, error |-> d.errorLine, hint |-> BridgeHints(d)]
       ELSE [success |-> FALSE, error |-> d.errorLine, hint |-> BridgeHints(d),
             rawOutput |-> d.lines]
  ELSE IF d.exec = "resolved"
  THEN [success |-> FALSE, error |-> "Unexpected response from ODBC test",
        output |-> d.lines]
  ELSE IF d.lines # {}
  THEN [success |-> FALSE, error |-> "Failed to execute 32-bit PowerShell ODBC test",
        output |-> d.lines]
  ELSE [success |-> FALSE,
        error |-> OrElse(d.message, "Failed to execute 32-bit PowerShell ODBC test"),
        hint |-> <<"Ensure 32-bit PowerShell is available on your system.",
                   "Expected path: SysWOW64 powershell.exe",
                   "This should be available by default on 64-bit Windows systems.">>]

(* Direct ODBC: an error may carry odbcErrors[0] = {state, message}.        *)
OdbcErr(code, message, hasOdbcErrors, odbcState, odbcMessage) ==
  [thrown |-> TRUE, code |-> code, message |-> message, state |-> Undefined,
   hasOdbcErrors |-> hasOdbcErrors, odbcState |-> odbcState,
   odbcMessage |-> odbcMessage]

OdbcHints(error) ==
  LET has == error.hasOdbcErrors
      msg == OrElse(error.odbcMessage, OrElse(error.message, "ODBC connection failed"))
      a == IF has /\ (error.odbcState = "IM002"
                        \/ msg \in {"Data source name not found"})
           THEN <<"DSN is not configured in Windows ODBC Data Sources.",
                  "Open ODBC Data Sources (32-bit) from Windows Start menu.",
                  "Add a System DSN pointing to your Eaglesoft database.",
                  "If Eaglesoft uses ProvideX, ensure the driver is installed.">>
           ELSE << >>
      b == IF has /\ (error.odbcState = "28000" \/ msg \in {"login failed"})
           THEN <<"Invalid username or password for the DSN.",
                  "Verify credentials", "Check the DSN configuration">>
           ELSE << >>
      c == IF has /\ (error.odbcState = "08001" \/ msg \in {"unable to connect"})
           THEN <<"Cannot establish connection to the database server.",
                  "Ensure the database server/service is running.",
                  "Verify network connectivity if using a remote server.">>
           ELSE << >>
      hints == a \o b \o c
  IN  IF Len(hints) = 0
      THEN <<"The DSN must be configured in ODBC Data Source Administrator.",
             "Eaglesoft typically uses ProvideX ODBC driver.",
             "Try opening Eaglesoft application first.",
             "Connection string used">>
      ELSE hints

OdbcCatchResult(error) ==
  [success |-> FALSE,
   error |-> IF error.hasOdbcErrors
             THEN OrElse(error.odbcMessage,
                         OrElse(error.message, "ODBC connection failed"))
             ELSE OrElse(error.message, "ODBC connection failed"),
   code |-> error.code, state |-> error.state, hint |-> OdbcHints(error)]

testOdbcConnection(config, d) ==
  IF Truthy(Get(config, "useOdbc")) THEN testOdbcConnection32Bit(config, d)
  ELSE IF ~d.installed
  THEN [success |-> FALSE, error |-> "ODBC driver not installed.",
        code |-> "ODBC_DRIVER_MISSING"]
  ELSE IF ~OdbcHasConnectionString(config)
  THEN [success |-> FALSE,
        error |-> "Missing ODBC connection string information for Eaglesoft connection."]
  ELSE IF d.connect[1].thrown THEN OdbcCatchResult(d.connect[1])
  ELSE IF d.query.thrown THEN OdbcCatchResult(d.query)
  ELSE OdbcSuccess(config, "ODBC connection successful")

(* ----------------------- driver calls of one test ---------------------- *)
(* The calls an adapter makes on its driver, in order: "connect" for each   *)
(* connection attempt, "query" for the identity query, "close" for the      *)
(* close/end call, "exec" for the 32-bit PowerShell child.                  *)
MssqlDriverCalls(config, d) ==
  IF d.connect[1].thrown THEN <<"connect">>
  ELSE <<"connect", "query", "close">>

MysqlDriverCalls(config, d) ==
  IF ~d.installed \/ Get(config, "password") = PASSWORD_PLACEHOLDER THEN << >>
  ELSE
    LET hostsToTry == MysqlHostsToTry(config)
        k == MysqlLastAttempt(hostsToTry, d, 1)
        attempts == [i \in 1..k |-> "connect"]
    IN  IF d.connect[k].thrown THEN attempts
        ELSE IF d.query.thrown THEN attempts \o <<"query">>
        ELSE attempts \o <<"query", "close">>

PostgresqlDriverCalls(config, d) ==
  IF ~d.installed THEN << >>
  ELSE IF d.connect[1].thrown THEN <<"connect">>
  ELSE IF d.query.thrown THEN <<"connect", "query">>
  ELSE <<"connect", "query", "close">>

MongodbDriverCalls(config, d) ==
  IF ~d.installed THEN << >>
  ELSE IF d.connect[1].thrown THEN <<"connect">>
  ELSE IF d.query.thrown THEN <<"connect", "query">>
  ELSE <<"connect", "query", "close">>

OdbcDriverCalls(config, d) ==
  IF Truthy(Get(config, "useOdbc"))
  THEN IF OdbcHasConnectionString(config) THEN <<"exec">> ELSE << >>
  ELSE IF ~d.installed \/ ~OdbcHasConnectionString(config) THEN << >>
  ELSE IF d.connect[1].thrown THEN <<"connect">>
  ELSE <<"connect", "query", "close">>

(* connect attempt i of the call returned a connection *)
ConnectionOpened(calls, d) ==
  \E i \in 1..Len(calls) : calls[i] = "connect" /\ ~d.connect[i].thrown

ConnectionClosed(calls) ==
  \E i \in 1..Len(calls) : calls[i] = "close"

ConnectAttempts(calls) ==
  Cardinality({i \in 1..Len(calls) : calls[i] = "connect"})

(* ------------------------ instance discovery --------------------------- *)
(* What one vendor's discovery finds on the machine: the outcome of each    *)
(* registry read (Errored, or the names found), of the service or network   *)
(* scan (Throws, or the names printed), and whether an exception escapes    *)
(* the inner handlers into the function's outer catch.                      *)
Errored == <<"!err">>
Throws == <<"!throws">>

Instance(name, serverName, type, source) ==
  [name |-> name, serverName |-> serverName, type |-> type, source |-> source]

RECURSIVE AddUnlessFound(_, _, _, _, _)
AddUnlessFound(instances, names, k, type, source) ==
  IF k > Len(names) THEN instances
  ELSE
    LET found == \E i \in 1..Len(instances) : instances[i].name = names[k]
    IN  AddUnlessFound(
          IF found THEN instances
          ELSE Append(instances, Instance(names[k], "localhost", type, source)),
          names, k + 1, type, source)

RECURSIVE AddNetworkServers(_, _, _)
AddNetworkServers(instances, names, k) ==
  IF k > Len(names) THEN instances
  ELSE
    LET found == \E i \in 1..Len(instances) : instances[i].serverName = names[k]
    IN  AddNetworkServers(
          IF found THEN instances
          ELSE Append(instances,
                      Instance(names[k], names[k], DB_TYPES.MSSQL, "network")),
          names, k + 1)

PlatformFailure == [success |-> FALSE, error |-> "only available on Windows",
                    instances |-> << >>]

CrashFailure == [success |-> FALSE, error |-> "unexpected error",
                 instances |-> << >>]

Found(instances) ==
  [success |-> TRUE, instances |-> instances, count |-> Len(instances)]

SqlServerRegistryInstances(items) ==
  IF items = Errored THEN << >>
  ELSE [i \in 1..Len(items) |->
          Instance(items[i],
                   IF items[i] = "MSSQLSERVER" THEN "localhost"
                   ELSE "localhost/" \o items[i],
                   DB_TYPES.MSSQL, "registry")]

discoverSqlServerInstances(platform, env) ==
  IF platform # "win32" THEN PlatformFailure
  ELSE IF env.crash THEN CrashFailure
  ELSE
    LET fromRegistry == SqlServerRegistryInstances(env.registry[1])
                          \o SqlServerRegistryInstances(env.registry[2])
    IN  Found(IF env.scan = Throws THEN fromRegistry
              ELSE AddNetworkServers(fromRegistry, env.scan, 1))

ServiceInstances(names, type) ==
  IF names = Throws THEN << >>
  ELSE [i \in 1..Len(names) |-> Instance(names[i], "localhost", type, "service")]

ServiceAndRegistryInstances(env, type) ==
  LET fromServices == ServiceInstances(env.scan, type)
      first == IF env.registry[1] = Errored THEN fromServices
               ELSE AddUnlessFound(fromServices, env.registry[1], 1, type, "registry")
  IN  IF env.registry[2] = Errored THEN first
      ELSE AddUnlessFound(first, env.registry[2], 1, type, "registry")

discoverMySqlInstances(platform, env) ==
  IF platform # "win32" THEN PlatformFailure
  ELSE IF env.crash THEN CrashFailure
  ELSE Found(ServiceAndRegistryInstances(env, DB_TYPES.MYSQL))

discoverPostgreSqlInstances(platform, env) ==
  IF platform # "win32" THEN PlatformFailure
  ELSE IF env.crash THEN CrashFailure
  ELSE Found(ServiceAndRegistryInstances(env, DB_TYPES.POSTGRESQL))

discoverMongoDbInstances(platform, env) ==
  IF platform # "win32" THEN PlatformFailure
  ELSE IF env.crash THEN CrashFailure
  ELSE Found(ServiceInstances(env.scan, DB_TYPES.MONGODB))

InstancesOrEmpty(vendorResult) ==
  IF "instances" \in DOMAIN vendorResult THEN vendorResult.instances ELSE << >>

discoverAllDatabasesStrict(sqlServer, mysql, postgresql, mongodb) ==
  IF sqlServer.success /\ mysql.success /\ postgresql.success /\ mongodb.success
  THEN [success |-> TRUE,
        instances |-> sqlServer.instances \o mysql.instances
                        \o postgresql.instances \o mongodb.instances,
        count |-> Len(sqlServer.instances \o mysql.instances
                        \o postgresql.instances \o mongodb.instances),
        byType |-> [mssql |-> sqlServer.instances, mysql |-> mysql.instances,
                    postgresql |-> postgresql.instances,
                    mongodb |-> mongodb.instances]]
  ELSE [success |-> FALSE, error |-> "discovery failed", instances |-> << >>]

discoverAllDatabases(sqlServer, mysql, postgresql, mongodb) ==
  LET allInstances == InstancesOrEmpty(sqlServer) \o InstancesOrEmpty(mysql)
                        \o InstancesOrEmpty(postgresql) \o InstancesOrEmpty(mongodb)
  IN  [success |-> TRUE,
       instances |-> allInstances,
       count |-> Len(allInstances),
       byType |-> [mssql |-> InstancesOrEmpty(sqlServer),
                   mysql |-> InstancesOrEmpty(mysql),
                   postgresql |-> InstancesOrEmpty(postgresql),
                   mongodb |-> InstancesOrEmpty(mongodb)]]

(* ------------------------- registry credentials ------------------------ *)
(* The registry is the set of keys whose values can be read when the paths  *)
(* are discovered, and, for the later read of a discovered key, whether it  *)
(* fails ("err"), yields no value ("empty") or yields values ("config").    *)
BasePaths(dbType, instanceName) ==
  IF dbType = DB_TYPES.MSSQL
  THEN <<"YourApp/SQLConnection/" \o instanceName, "YourApp/SQLConnection",
         "Microsoft/Microsoft SQL Server/" \o instanceName,
         "Microsoft/MSSQLServer/" \o instanceName>>
  ELSE IF dbType = DB_TYPES.MYSQL
  THEN <<"YourApp/MySQLConnection/" \o instanceName, "YourApp/MySQLConnection",
         "MySQL AB/" \o instanceName, "MySQL AB", "MySQL">>
  ELSE IF dbType = DB_TYPES.POSTGRESQL
  THEN <<"YourApp/PostgreSQLConnection/" \o instanceName,
         "YourApp/PostgreSQLConnection", "PostgreSQL/" \o instanceName,
         "PostgreSQL/Installations/" \o instanceName, "PostgreSQL">>
  ELSE IF dbType = DB_TYPES.MONGODB
  THEN <<"YourApp/MongoDBConnection/" \o instanceName, "YourApp/MongoDBConnection",
         "MongoDB/" \o instanceName, "MongoDB">>
  ELSE << >>

RegistryPath(hive, basePath) ==
  [hive |-> hive, path |-> basePath, fullPath |-> hive \o basePath]

HivesLocalMachineFirst == <<"HKLM", "HKCU">>

Hives == <<"HKCU", "HKLM">>

Candidates(dbType, instanceName) ==
  LET basePaths == BasePaths(dbType, instanceName)
      n == Len(basePaths)
  IN  [i \in 1..(2 * n) |->
         RegistryPath(Hives[((i - 1) \div n) + 1], basePaths[((i - 1) % n) + 1])]

discoverRegistryPaths(dbType, instanceName, readable) ==
  LET Exists(candidate) == candidate.fullPath \in readable
  IN  SelectSeq(Candidates(dbType, instanceName), Exists)

ConfigAt(fullPath) == [Server |-> fullPath]

(* The value map read from a key; [isNull |-> TRUE] stands for the null     *)
(* returned when the read fails.                                            *)
readRegistryConfig(fullPath, reread) ==
  IF reread[fullPath] = "err" THEN [isNull |-> TRUE]
  ELSE IF reread[fullPath] = "empty" THEN [isNull |-> FALSE, config |-> EmptyObject]
  ELSE [isNull |-> FALSE, config |-> ConfigAt(fullPath)]

HasValuesOrEmpty(read) == ~read.isNull

HasValues(read) == ~read.isNull /\ DOMAIN read.config # {}

FullPaths(registryPaths) ==
  [i \in 1..Len(registryPaths) |-> registryPaths[i].fullPath]

(* The loop over the discovered paths: the result and the paths read.       *)
RECURSIVE FetchLoop(_, _, _)
FetchLoop(registryPaths, k, reread) ==
  IF k > Len(registryPaths)
  THEN [res |-> [success |-> FALSE,
                 error |-> "Registry keys found but no valid configuration. Please enter connection details manually.",
                 config |-> Null,
                 discoveredPaths |-> FullPaths(registryPaths)],
        reads |-> FullPaths(registryPaths)]
  ELSE
    LET read == readRegistryConfig(registryPaths[k].fullPath, reread)
    IN  IF HasValues(read)
        THEN [res |-> [success |-> TRUE, config |-> read.config,
                       source |-> registryPaths[k].fullPath],
              reads |-> FullPaths(SubSeq(registryPaths, 1, k))]
        ELSE FetchLoop(registryPaths, k + 1, reread)

fetchCredentialsFromRegistry(platform, dbType, instanceName, readable, reread) ==
  IF platform # "win32"
  THEN [res |-> [success |-> FALSE,
                 error |-> "Registry access is only available on Windows"],
        reads |-> << >>]
  ELSE
    LET registryPaths == discoverRegistryPaths(dbType, instanceName, readable)
    IN  IF Len(registryPaths) = 0
        THEN [res |-> [success |-> FALSE,
                       error |-> "No configuration found in registry. Please enter connection details manually.",
                       config |-> Null],
              reads |-> << >>]
        ELSE FetchLoop(registryPaths, 1, reread)

(* ------------------------ testConnection, one call --------------------- *)
AllOk ==
  [installed |-> TRUE, connect |-> <<Ok, Ok>>, query |-> Ok, close |-> Ok,
   exec |-> "resolved", lines |-> {"SUCCESS"}, errorLine |-> "", hintLine |-> "",
   message |-> ""]

ConnectionLost == Err("PROTOCOL_CONNECTION_LOST", "Connection lost")

ScriptFor(drv) ==
  IF drv = "connected" THEN AllOk
  ELSE IF drv = "refused"
  THEN [AllOk EXCEPT !.connect = <<Err("ECONNREFUSED", "connect ECONNREFUSED"), Ok>>,
                     !.exec = "rejected", !.lines = {"ERROR"},
                     !.errorLine = "unable to connect"]
  ELSE [AllOk EXCEPT !.query = ConnectionLost, !.exec = "rejected",
                     !.lines = {}, !.message = "Command failed"]

RunAdapter(adapter, config, d) ==
  IF adapter = "odbc" THEN testOdbcConnection(config, d)
  ELSE IF adapter = DB_TYPES.MSSQL THEN testMssqlConnection(config, d)
  ELSE IF adapter = DB_TYPES.MYSQL THEN testMysqlConnection(config, d)
  ELSE IF adapter = DB_TYPES.POSTGRESQL THEN testPostgresqlConnection(config, d)
  ELSE testMongodbConnection(config, d)

AdapterForTypeOnly(connection) ==
  IF Get(connection, "type") \in {DB_TYPES.MSSQL, DB_TYPES.MYSQL,
                                  DB_TYPES.POSTGRESQL, DB_TYPES.MONGODB}
  THEN Get(connection, "type")
  ELSE "none"

AdapterFor(connection) ==
  IF Truthy(Get(connection.config, "useOdbc"))
     /\ Truthy(Get(connection.config, "odbcConnectionString"))
  THEN "odbc"
  ELSE IF Get(connection, "type") \in {DB_TYPES.MSSQL, DB_TYPES.MYSQL,
                                       DB_TYPES.POSTGRESQL, DB_TYPES.MONGODB}
  THEN Get(connection, "type")
  ELSE "none"

DriverResult(adapter, connection, drv) ==
  IF adapter = "none"
  THEN [success |-> FALSE, error |-> "Database type is not supported yet"]
  ELSE RunAdapter(adapter, connection.config, ScriptFor(drv))

TestedStatusUnstamped(result, testedAt) == result

TestedStatus(result, testedAt) == ObjectAssign(result, [testedAt |-> testedAt])

MarkTested(connection, t) == ObjectAssign(connection, [lastTested |-> TimeStamp(t)])

testConnectionUnguarded(connections, f, statuses, connectionId, t, drv, wr) ==
  LET index == FindIndex(connections, connectionId) IN
  IF index = 0
  THEN [conns |-> connections, file |-> f, statuses |-> statuses,
        res |-> [success |-> FALSE, error |-> "TypeError"], wrote |-> FALSE,
        adapters |-> << >>]
  ELSE
    LET connection == connections[index]
        adapter == AdapterFor(connection)
        result == DriverResult(adapter, connection, drv)
        tested == MarkTested(connection, t)
        conns2 == ReplaceAt(connections, index, tested)
    IN  [conns |-> conns2,
         file |-> saveSavedConnections(conns2, f, wr),
         statuses |-> IF wr = "ok"
                      THEN StatusSet(statuses, connectionId,
                                     TestedStatus(result, Get(tested, "lastTested")))
                      ELSE statuses,
         res |-> IF wr = "ok" THEN result ELSE ErrorResult(wr),
         wrote |-> TRUE,
         adapters |-> IF adapter = "none" THEN << >> ELSE <<adapter>>]

testConnection(connections, f, statuses, connectionId, t, drv, wr) ==
  LET index == FindIndex(connections, connectionId) IN
  IF index = 0
  THEN [conns |-> connections, file |-> f, statuses |-> statuses,
        res |-> NotFoundResult, wrote |-> FALSE, adapters |-> << >>]
  ELSE
    LET connection == connections[index]
        adapter == AdapterFor(connection)
        result == DriverResult(adapter, connection, drv)
        tested == MarkTested(connection, t)
        conns2 == ReplaceAt(connections, index, tested)
    IN  [conns |-> conns2,
         file |-> saveSavedConnections(conns2, f, wr),
         statuses |-> IF wr = "ok"
                      THEN StatusSet(statuses, connectionId,
                                     TestedStatus(result, Get(tested, "lastTested")))
                      ELSE statuses,
         res |-> IF wr = "ok" THEN result ELSE ErrorResult(wr),
         wrote |-> TRUE,
         adapters |-> IF adapter = "none" THEN << >> ELSE <<adapter>>]

TestAllEntryBare(connection, result) == result

TestAllEntry(connection, result) ==
  ObjectAssign([connectionId |-> Get(connection, "id"),
                name |-> Get(connection, "name"),
                type |-> Get(connection, "type")], result)

StatusEntry(conn, statuses) ==
  [id |-> Get(conn, "id"), name |-> Get(conn, "name"), type |-> Get(conn, "type"),
   createdAt |-> Get(conn, "createdAt"), lastTested |-> Get(conn, "lastTested"),
   status |-> getConnectionStatus(statuses, Get(conn, "id"))]

(* ------------------- the store operations, one call each --------------- *)
Effect(conns, f, statuses, res, wrote, adapters) ==
  [conns |-> conns, file |-> f, statuses |-> statuses, res |-> res,
   wrote |-> wrote, adapters |-> adapters]

addConnection(connections, f, statuses, connectionData, id, t, outcome) ==
  LET newConnection == NewConnection(connectionData, id, t)
      conns == Append(connections, newConnection)
  IN  Effect(conns, saveSavedConnections(conns, f, outcome), statuses,
             IF outcome = "ok"
             THEN [success |-> TRUE, connection |-> newConnection]
             ELSE ErrorResult(outcome),
             TRUE, << >>)

removeConnectionUnsaved(connections, f, statuses, connectionId, outcome) ==
  LET index == FindIndex(connections, connectionId) IN
  IF index = 0
  THEN Effect(connections, f, statuses, NotFoundResult, FALSE, << >>)
  ELSE Effect(Splice(connections, index), f, StatusDelete(statuses, connectionId),
              [success |-> TRUE], FALSE, << >>)

removeConnectionUnguarded(connections, f, statuses, connectionId, outcome) ==
  LET index == FindIndex(connections, connectionId)
      at == IF index = 0 THEN Len(connections) ELSE index
      conns == IF Len(connections) = 0 THEN connections ELSE Splice(connections, at)
  IN  Effect(conns, saveSavedConnections(conns, f, outcome),
             StatusDelete(statuses, connectionId),
             IF outcome = "ok" THEN [success |-> TRUE] ELSE ErrorResult(outcome),
             TRUE, << >>)

removeConnection(connections, f, statuses, connectionId, outcome) ==
  LET index == FindIndex(connections, connectionId) IN
  IF index = 0
  THEN Effect(connections, f, statuses, NotFoundResult, FALSE, << >>)
  ELSE LET conns == Splice(connections, index)
       IN  Effect(conns, saveSavedConnections(conns, f, outcome),
                  StatusDelete(statuses, connectionId),
                  IF outcome = "ok" THEN [success |-> TRUE] ELSE ErrorResult(outcome),
                  TRUE, << >>)

updateConnection(connections, f, statuses, connectionId, updates, outcome) ==
  LET index == FindIndex(connections, connectionId) IN
  IF index = 0
  THEN Effect(connections, f, statuses, NotFoundResult, FALSE, << >>)
  ELSE LET connection == UpdatedConnection(connections[index], updates, connectionId)
           conns == ReplaceAt(connections, index, connection)
       IN  Effect(conns, saveSavedConnections(conns, f, outcome), statuses,
                  IF outcome = "ok"
                  THEN [success |-> TRUE, connection |-> connection]
                  ELSE ErrorResult(outcome),
                  TRUE, << >>)

getAllConnections(connections, f, statuses) ==
  LET conns == loadSavedConnections(connections, f)
  IN  Effect(conns, f, statuses,
             [success |-> TRUE,
              connections |-> sanitizeConnectionsForRenderer(conns)],
             FALSE, << >>)

RECURSIVE TestAllLoop(_, _, _, _, _, _, _)
TestAllLoop(list, k, st, results, ts, drvs, wrs) ==
  IF k > Len(list) THEN [st |-> st, results |-> results]
  ELSE
    LET r == testConnection(st.conns, st.file, st.statuses,
                            Get(list[k], "id"), ts[k], drvs[k], wrs[k])
    IN  TestAllLoop(list, k + 1,
          Effect(r.conns, r.file, r.statuses, NoArg,
                 st.wrote \/ r.wrote, st.adapters \o r.adapters),
          Append(results, TestAllEntry(list[k], r.res)), ts, drvs, wrs)

testAllConnections(connections, f, statuses, ts, drvs, wrs) ==
  LET list == loadSavedConnections(connections, f)
      r == TestAllLoop(list, 1, Effect(list, f, statuses, NoArg, FALSE, << >>),
                       << >>, ts, drvs, wrs)
  IN  Effect(r.st.conns, r.st.file, r.st.statuses,
             [success |-> TRUE, results |-> r.results],
             r.st.wrote, r.st.adapters)

getAllConnectionStatuses(connections, f, statuses) ==
  LET conns == loadSavedConnections(connections, f)
  IN  Effect(conns, f, statuses,
             [success |-> TRUE,
              statuses |-> [i \in 1..Len(conns) |-> StatusEntry(conns[i], statuses)]],
             FALSE, << >>)

(* --------------------- history kept for the properties ----------------- *)
EmptyMap == [k \in {} |-> Null]

removedIds == DOMAIN removed

Call(op, id, input, r) ==
  [op |-> op, id |-> id, input |-> input, res |-> r.res, wrote |-> r.wrote,
   adapters |-> r.adapters,
   afterEmptyAdd |-> /\ op = "getAllConnections"
                     /\ lastCall.op = "addConnection"
                     /\ lastCall.res.success
                     /\ Len(savedConnections) = 1]

Failed(outcome) == IF outcome = "ok" THEN 0 ELSE 1

RECURSIVE FailedCount(_, _)
FailedCount(outcomes, k) ==
  IF k = 0 THEN 0 ELSE Failed(outcomes[k]) + FailedCount(outcomes, k - 1)

WriteAllowed(r, outcome) ==
  IF r.wrote THEN outcome = "ok" \/ writeFailures < MaxWriteFailures
  ELSE outcome = "ok"

Store(r) ==
  /\ savedConnections' = r.conns
  /\ file' = r.file
  /\ connectionStatuses' = r.statuses

(* ------------------------------- Init ---------------------------------- *)
(* pending holds the calls in flight: calls that were started and are       *)
(* suspended at an await; invoked counts the calls started.  Both stay as   *)
(* they are where handlers run one at a time.                               *)
Slots == 1..MaxPending

NoCall == [op |-> "none"]

Init ==
  /\ savedConnections = << >>
  /\ connectionStatuses = EmptyMap
  /\ file = [kind |-> "ENOENT", data |-> << >>]
  /\ nextId = 1
  /\ now = 0
  /\ lastCall = [op |-> "init", id |-> NoArg, input |-> NoArg, res |-> NoArg,
                 wrote |-> FALSE, adapters |-> << >>, afterEmptyAdd |-> FALSE]
  /\ removed = EmptyMap
  /\ acked = {}
  /\ writeFailures = 0
  /\ pending = [i \in Slots |-> NoCall]
  /\ invoked = 0

(* ------------------------------ actions -------------------------------- *)
AddConnection ==
  \E connectionData \in ConnectionInputs, outcome \in WriteOutcomes,
     t \in now..MaxClock :
    LET id == generateConnectionId(nextId)
        r == addConnection(savedConnections, file, connectionStatuses,
                           connectionData, id, t, outcome)
    IN  /\ nextId <= MaxIds
        /\ WriteAllowed(r, outcome)
        /\ Store(r)
        /\ lastCall' = Call("addConnection", NoArg, connectionData, r)
        /\ nextId' = nextId + 1
        /\ now' = t
        /\ acked' = IF r.res.success THEN acked \cup {id} ELSE acked
        /\ writeFailures' = writeFailures + Failed(outcome)
        /\ UNCHANGED <<removed, pending, invoked>>

RemoveConnection ==
  \E connectionId \in IdPool, outcome \in WriteOutcomes :
    LET r == removeConnection(savedConnections, file, connectionStatuses,
                              connectionId, outcome)
    IN  /\ WriteAllowed(r, outcome)
        /\ Store(r)
        /\ lastCall' = Call("removeConnection", connectionId, NoArg, r)
        /\ removed' = IF r.res.success
                      THEN [k \in removedIds \cup {connectionId} |->
                              IF k = connectionId
                              THEN connectionId \in DOMAIN connectionStatuses
                              ELSE removed[k]]
                      ELSE removed
        /\ acked' = IF r.res.success THEN acked \ {connectionId} ELSE acked
        /\ writeFailures' = writeFailures + Failed(outcome)
        /\ UNCHANGED <<nextId, now, pending, invoked>>

UpdateConnection ==
  \E connectionId \in IdPool, updates \in UpdateInputs, outcome \in WriteOutcomes :
    LET r == updateConnection(savedConnections, file, connectionStatuses,
                              connectionId, updates, outcome)
    IN  /\ WriteAllowed(r, outcome)
        /\ Store(r)
        /\ lastCall' = Call("updateConnection", connectionId, NoArg, r)
        /\ writeFailures' = writeFailures + Failed(outcome)
        /\ UNCHANGED <<nextId, now, removed, acked, pending, invoked>>

GetAllConnections ==
  LET r == getAllConnections(savedConnections, file, connectionStatuses)
  IN  /\ Store(r)
      /\ lastCall' = Call("getAllConnections", NoArg, NoArg, r)
      /\ UNCHANGED <<nextId, now, removed, acked, writeFailures, pending, invoked>>

TestConnection ==
  \E connectionId \in IdPool, drv \in DriverOutcomes, wr \in WriteOutcomes,
     t \in now..MaxClock :
    LET r == testConnection(savedConnections, file, connectionStatuses,
                            connectionId, t, drv, wr)
    IN  /\ WriteAllowed(r, wr)
        /\ r.adapters = << >> => drv = "connected"
        /\ ~r.wrote => t = now
        /\ Store(r)
        /\ lastCall' = Call("testConnection", connectionId, NoArg, r)
        /\ now' = t
        /\ writeFailures' = writeFailures + (IF r.wrote THEN Failed(wr) ELSE 0)
        /\ UNCHANGED <<nextId, removed, acked, pending, invoked>>

TestAllConnections ==
  LET n == Len(loadSavedConnections(savedConnections, file)) IN
  \E drvs \in [1..n -> DriverOutcomes], wrs \in [1..n -> WriteOutcomes],
     ts \in [1..n -> now..MaxClock] :
    LET r == testAllConnections(savedConnections, file, connectionStatuses,
                                ts, drvs, wrs)
    IN  /\ writeFailures + FailedCount(wrs, n) <= MaxWriteFailures
        /\ \A k \in 1..n :
             AdapterFor(loadSavedConnections(savedConnections, file)[k]) = "none"
               => drvs[k] = "connected"
        /\ \A k \in 1..(n - 1) : ts[k] <= ts[k + 1]
        /\ Store(r)
        /\ lastCall' = Call("testAllConnections", NoArg, NoArg, r)
        /\ now' = IF n = 0 THEN now ELSE ts[n]
        /\ writeFailures' = writeFailures + FailedCount(wrs, n)
        /\ UNCHANGED <<nextId, removed, acked, pending, invoked>>

GetConnectionStatus ==
  \E connectionId \in IdPool :
    /\ lastCall' = Call("getConnectionStatus", connectionId, NoArg,
                        [res |-> getConnectionStatus(connectionStatuses, connectionId),
                         wrote |-> FALSE, adapters |-> << >>])
    /\ UNCHANGED <<savedConnections, connectionStatuses, file, nextId, now,
                   removed, acked, writeFailures, pending, invoked>>

GetAllConnectionStatuses ==
  LET r == getAllConnectionStatuses(savedConnections, file, connectionStatuses)
  IN  /\ Store(r)
      /\ lastCall' = Call("getAllConnectionStatuses", NoArg, NoArg, r)
      /\ UNCHANGED <<nextId, now, removed, acked, writeFailures, pending, invoked>>

Restart ==
  /\ savedConnections' = << >>
  /\ connectionStatuses' = EmptyMap
  /\ lastCall' = Call("restart", NoArg, NoArg,
                      [res |-> NoArg, wrote |-> FALSE, adapters |-> << >>])
  /\ UNCHANGED <<file, nextId, now, removed, acked, writeFailures, pending, invoked>>

Next ==
  \/ AddConnection
  \/ RemoveConnection
  \/ UpdateConnection
  \/ GetAllConnections
  \/ TestConnection
  \/ TestAllConnections
  \/ GetConnectionStatus
  \/ GetAllConnectionStatuses
  \/ Restart

Spec == Init /\ [][Next]_vars

(* ------------------- single calls of the other exports ----------------- *)
(* SpecFunctions: one call, made in the initial state, of a driver adapter, *)
(* of the discovery or of the registry functions, for every input and       *)
(* every behaviour of the driver, the machine and the registry drawn from   *)
(* the sets below.  lastCall.adapters holds the registry keys the call read.*)
Platforms == {"win32", "linux"}

AccessDeniedMessage == "Access denied for user 'root'@'localhost'"

DriverErrors ==
  { Err("ECONNREFUSED", "connect ECONNREFUSED"),
    Err("ER_ACCESS_DENIED_ERROR", AccessDeniedMessage),
    Err(Undefined, AccessDeniedMessage),
    Err(Undefined, Undefined) }

StepOutcomes == {Ok} \cup DriverErrors

DriverScripts ==
  {[installed |-> i, connect |-> <<a, b>>, query |-> q, close |-> c] :
     i \in BOOLEAN, a \in StepOutcomes, b \in StepOutcomes,
     q \in StepOutcomes, c \in StepOutcomes}

AdapterConfigs ==
  { [host |-> "localhost", server |-> "localhost", password |-> "p1"],
    [host |-> "db", server |-> "db", password |-> ""],
    [host |-> "127.0.0.1", server |-> "db", password |-> PASSWORD_PLACEHOLDER] }

OdbcErrors ==
  { OdbcErr(Undefined, "[odbc] Error connecting", TRUE, "IM002",
            "Data source name not found"),
    OdbcErr(Undefined, "[odbc] Error connecting", TRUE, "28000", Undefined),
    OdbcErr(Undefined, "[odbc] Error connecting", TRUE, "HY000", "unable to connect"),
    OdbcErr("ETIMEOUT", Undefined, FALSE, Undefined, Undefined) }

OdbcStepOutcomes == {Ok} \cup OdbcErrors

OdbcScripts ==
  {[installed |-> i, connect |-> <<a>>, query |-> q, exec |-> x, lines |-> l,
    errorLine |-> "login failed", hintLine |-> "Invalid username or password",
    message |-> m] :
     i \in BOOLEAN, a \in OdbcStepOutcomes, q \in OdbcStepOutcomes,
     x \in {"resolved", "rejected"}, l \in SUBSET {"SUCCESS", "ERROR", "HINT"},
     m \in {Undefined, "spawn powershell.exe ENOENT"}}

OdbcConfigs ==
  { [useOdbc |-> "true", odbcConnectionString |-> "DSN=Eaglesoft;UID=dba"],
    [useOdbc |-> "true", server |-> "Eaglesoft"],
    [DSN |-> "Eaglesoft", username |-> "dba", password |-> "p1"],
    [server |-> "Eaglesoft"] }

MssqlEnvs ==
  { [registry |-> <<Errored, Errored>>, scan |-> Throws, crash |-> FALSE],
    [registry |-> <<<<"MSSQLSERVER">>, <<"SQLEXPRESS">>>>,
     scan |-> <<"localhost", "db2">>, crash |-> FALSE],
    [registry |-> <<<<"MSSQLSERVER">>, Errored>>, scan |-> Throws, crash |-> TRUE] }

MysqlEnvs ==
  { [registry |-> <<Errored, Errored>>, scan |-> Throws, crash |-> FALSE],
    [registry |-> <<<<"MySQL80">>, <<"MySQL80", "MySQL57">>>>,
     scan |-> <<"MySQL80">>, crash |-> FALSE],
    [registry |-> <<<<"MySQL80">>, Errored>>, scan |-> <<"MySQL80">>,
     crash |-> TRUE] }

PostgresqlEnvs ==
  { [registry |-> <<Errored, Errored>>, scan |-> Throws, crash |-> FALSE],
    [registry |-> <<Errored, <<"postgresql-x64-16">>>>, scan |-> Throws,
     crash |-> FALSE],
    [registry |-> <<Errored, Errored>>, scan |-> <<"postgresql-x64-16">>,
     crash |-> TRUE] }

MongodbEnvs ==
  { [scan |-> Throws, crash |-> FALSE],
    [scan |-> <<"MongoDB">>, crash |-> FALSE],
    [scan |-> <<"MongoDB">>, crash |-> TRUE] }

RegistryTypes == {DB_TYPES.MSSQL, DB_TYPES.MYSQL, DB_TYPES.ORACLE}

InstanceName == "X"

RegistryKeyPool ==
  { "HKLM" \o BasePaths(DB_TYPES.MSSQL, InstanceName)[1],
    "HKCU" \o BasePaths(DB_TYPES.MSSQL, InstanceName)[2],
    "HKLM" \o BasePaths(DB_TYPES.MYSQL, InstanceName)[1],
    "HKCU" \o BasePaths(DB_TYPES.MYSQL, InstanceName)[4] }

FunctionCall(op, input, res, reads) ==
  [op |-> op, id |-> NoArg, input |-> input, res |-> res, wrote |-> FALSE,
   adapters |-> reads, afterEmptyAdd |-> FALSE]

(* a call of a driver adapter also records the driver calls it made *)
AdapterCall(op, input, res, calls) ==
  [op |-> op, id |-> NoArg, input |-> input, res |-> res, wrote |-> FALSE,
   adapters |-> << >>, afterEmptyAdd |-> FALSE, calls |-> calls]

Idle == lastCall.op = "init"

StoreUntouched ==
  UNCHANGED <<savedConnections, connectionStatuses, file, nextId, now, removed,
              acked, writeFailures, pending, invoked>>

TestMssqlConnection ==
  Idle /\ \E config \in AdapterConfigs, d \in DriverScripts :
    /\ d.installed
    /\ lastCall' = AdapterCall("testMssqlConnection", [config |-> config, d |-> d],
                                testMssqlConnection(config, d),
                                MssqlDriverCalls(config, d))
    /\ StoreUntouched

TestMysqlConnection ==
  Idle /\ \E config \in AdapterConfigs, d \in DriverScripts :
    /\ lastCall' = AdapterCall("testMysqlConnection", [config |-> config, d |-> d],
                                testMysqlConnection(config, d),
                                MysqlDriverCalls(config, d))
    /\ StoreUntouched

TestPostgresqlConnection ==
  Idle /\ \E config \in AdapterConfigs, d \in DriverScripts :
    /\ lastCall' = AdapterCall("testPostgresqlConnection",
                                [config |-> config, d |-> d],
                                testPostgresqlConnection(config, d),
                                PostgresqlDriverCalls(config, d))
    /\ StoreUntouched

TestMongodbConnection ==
  Idle /\ \E config \in AdapterConfigs, d \in DriverScripts :
    /\ lastCall' = AdapterCall("testMongodbConnection", [config |-> config, d |-> d],
                                testMongodbConnection(config, d),
                                MongodbDriverCalls(config, d))
    /\ StoreUntouched

TestOdbcConnection ==
  Idle /\ \E config \in OdbcConfigs, d \in OdbcScripts :
    /\ lastCall' = AdapterCall("testOdbcConnection", [config |-> config, d |-> d],
                                testOdbcConnection(config, d),
                                OdbcDriverCalls(config, d))
    /\ StoreUntouched

DiscoverAllDatabases ==
  Idle /\ \E platform \in Platforms, a \in MssqlEnvs, b \in MysqlEnvs,
     c \in PostgresqlEnvs, e \in MongodbEnvs :
    LET vendors == [mssql |-> discoverSqlServerInstances(platform, a),
                    mysql |-> discoverMySqlInstances(platform, b),
                    postgresql |-> discoverPostgreSqlInstances(platform, c),
                    mongodb |-> discoverMongoDbInstances(platform, e)]
    IN  /\ lastCall' = FunctionCall("discoverAllDatabases", vendors,
                         discoverAllDatabases(vendors.mssql, vendors.mysql,
                                              vendors.postgresql, vendors.mongodb),
                         << >>)
        /\ StoreUntouched

DiscoverRegistryPaths ==
  Idle /\ \E dbType \in RegistryTypes, readable \in SUBSET RegistryKeyPool :
    /\ lastCall' = FunctionCall("discoverRegistryPaths",
                     [dbType |-> dbType, readable |-> readable],
                     discoverRegistryPaths(dbType, InstanceName, readable), << >>)
    /\ StoreUntouched

FetchCredentialsFromRegistry ==
  Idle /\ \E platform \in Platforms, dbType \in RegistryTypes,
     readable \in SUBSET RegistryKeyPool,
     reread \in [RegistryKeyPool -> {"err", "empty", "config"}] :
    LET r == fetchCredentialsFromRegistry(platform, dbType, InstanceName,
                                          readable, reread)
    IN  /\ lastCall' = FunctionCall("fetchCredentialsFromRegistry",
                         [platform |-> platform, dbType |-> dbType,
                          readable |-> readable, reread |-> reread],
                         r.res, r.reads)
        /\ StoreUntouched

NextFunctions ==
  \/ TestMssqlConnection
  \/ TestMysqlConnection
  \/ TestPostgresqlConnection
  \/ TestMongodbConnection
  \/ TestOdbcConnection
  \/ DiscoverAllDatabases
  \/ DiscoverRegistryPaths
  \/ FetchCredentialsFromRegistry

SpecFunctions == Init /\ [][NextFunctions]_vars

(* ---------------- handlers interleaving at their awaits ---------------- *)
(* SpecAsync: the handlers run on one thread and give up control at an      *)
(* await on I/O, so that the part of a handler up to its first await and    *)
(* each part between two awaits is one step.  A call in flight is a record  *)
(* of pending: pc names the await it is suspended at ("read": fs.readFile   *)
(* of loadSavedConnections, "assign": its continuation, "driver": the       *)
(* adapter, "write": saveSavedConnections), the other fields are its local  *)
(* variables.  orphan says that the object a test holds in `connection` is  *)
(* no longer an element of savedConnections (the list was replaced by a     *)
(* reload, or the record was spliced out); live says that the array         *)
(* testAllConnections iterates over is still the one savedConnections names,*)
(* otherwise list holds what that array held when it was replaced.          *)
(* Here removed[id] says whether the removeConnection(id) that spliced the  *)
(* record out has returned success.                                         *)
AsyncInputs ==
  { [name |-> "X", type |-> "mysql",
     config |-> [host |-> "db", password |-> "p1"]],
    [name |-> "E", type |-> "mssql",
     config |-> [useOdbc |-> "true", odbcConnectionString |-> "DSN=Eaglesoft",
                 password |-> ""]],
    [name |-> "S", type |-> "sqlite",
     config |-> [host |-> "db", password |-> ""]] }

AsyncDriverOutcomes == {"connected", "refused", "hangs"}

AsyncWriteOutcomes == {"ok", "EACCES"}

(* The driver and shell calls that are given a timeout: connectionTimeout   *)
(* and requestTimeout of mssql, connectTimeout of mysql2,                   *)
(* connectionTimeoutMillis of pg, serverSelectionTimeoutMS of mongodb, the  *)
(* timeout option of the PowerShell exec.                                   *)
BoundedCalls ==
  { <<"mssql", "connect">>, <<"mssql", "query">>, <<"mysql", "connect">>,
    <<"postgresql", "connect">>, <<"mongodb", "connect">>, <<"odbc", "exec">> }

QueryCall(adapter) == IF adapter = "odbc" THEN "exec" ELSE "query"

(* "hangs": the server accepts the connection and never answers the query *)
Responds(adapter, drv) ==
  drv = "hangs" => <<adapter, QueryCall(adapter)>> \in BoundedCalls

TimedOut == Err("ETIMEOUT", "Timeout: request failed to complete")

AsyncScript(drv) ==
  IF drv = "hangs"
  THEN [AllOk EXCEPT !.query = TimedOut, !.exec = "rejected", !.lines = {},
                     !.message = "Command failed"]
  ELSE ScriptFor(drv)

(* locals that hold no value yet *)
NoRecord == [id |-> Undefined]

NoData == [kind |-> "none", data |-> << >>]

NewCall(op, pc, id, input) ==
  [op |-> op, pc |-> pc, id |-> id, input |-> input, data |-> NoData,
   adapter |-> "none", config |-> NoRecord, drv |-> "connected",
   result |-> NoRecord, orphan |-> FALSE, live |-> TRUE, list |-> << >>,
   k |-> 0, results |-> << >>]

FirstFree ==
  IF \E i \in Slots : pending[i] = NoCall
  THEN CHOOSE i \in Slots :
         pending[i] = NoCall /\ \A j \in Slots : pending[j] = NoCall => i <= j
  ELSE 0

(* what a completed call leaves in lastCall; record is the record that a   *)
(* test found, or the input of an add                                       *)
Returned(op, id, record, res, wrote, adapters) ==
  [op |-> op, id |-> id, input |-> NoArg, res |-> res, wrote |-> wrote,
   adapters |-> adapters, afterEmptyAdd |-> FALSE, record |-> record]

Testing(c) ==
  c.op \in {"testConnection", "testAllConnections"} /\ c.pc \in {"driver", "write"}

(* savedConnections = ... in loadSavedConnections: every held reference     *)
(* and every array being iterated now belongs to the old list               *)
Rebound(p, oldConnections) ==
  [i \in Slots |->
     IF ~Testing(p[i]) THEN p[i]
     ELSE IF p[i].op = "testAllConnections" /\ p[i].live
     THEN [p[i] EXCEPT !.orphan = (p[i].pc = "driver"), !.live = FALSE,
                       !.list = oldConnections]
     ELSE [p[i] EXCEPT !.orphan = (p[i].pc = "driver")]]

(* savedConnections.splice(index, 1) in removeConnection *)
Spliced(p, connectionId) ==
  [i \in Slots |->
     IF Testing(p[i]) /\ p[i].pc = "driver" /\ p[i].id = connectionId
     THEN [p[i] EXCEPT !.orphan = TRUE]
     ELSE p[i]]

(* testConnection up to its first await on I/O, for the record at index *)
BeginTest(c, connections, index, drv) ==
  LET connection == connections[index]
      adapter == AdapterFor(connection)
  IN  IF adapter = "none"
      THEN [call |-> [c EXCEPT !.pc = "write", !.id = Get(connection, "id"),
                               !.adapter = adapter, !.config = NoRecord,
                               !.drv = "connected", !.orphan = FALSE,
                               !.result = DriverResult(adapter, connection, drv)],
            conns |-> ReplaceAt(connections, index, MarkTested(connection, now))]
      ELSE [call |-> [c EXCEPT !.pc = "driver", !.id = Get(connection, "id"),
                               !.adapter = adapter, !.config = connection.config,
                               !.drv = drv, !.orphan = FALSE,
                               !.result = NoRecord],
            conns |-> connections]

(* the for...of loop of testAllConnections from the element after c.k up to *)
(* the next await on I/O, or to its end *)
RECURSIVE TestAllNext(_, _, _)
TestAllNext(c, connections, drv) ==
  LET list == IF c.live THEN connections ELSE c.list
      k == c.k + 1
  IN  IF k > Len(list)
      THEN [done |-> TRUE, call |-> c, conns |-> connections]
      ELSE
        LET index == FindIndex(connections, Get(list[k], "id")) IN
        IF index = 0
        THEN TestAllNext(
               [c EXCEPT !.k = k,
                         !.results = Append(@, TestAllEntry(list[k], NotFoundResult))],
               connections, drv)
        ELSE LET b == BeginTest([c EXCEPT !.k = k, !.input = list[k]],
                                connections, index, drv)
             IN  [done |-> FALSE, call |-> b.call, conns |-> b.conns]

TestAllStep(i, r, p) ==
  /\ savedConnections' = r.conns
  /\ IF r.done
     THEN /\ pending' = [p EXCEPT ![i] = NoCall]
          /\ lastCall' = Returned("testAllConnections", NoArg, NoRecord,
                                  [success |-> TRUE, results |-> r.call.results],
                                  TRUE, << >>)
     ELSE /\ pending' = [p EXCEPT ![i] = r.call]
          /\ UNCHANGED lastCall

StartAddConnection ==
  \E connectionData \in AsyncInputs :
    LET i == FirstFree
        id == generateConnectionId(nextId)
    IN  /\ i # 0
        /\ invoked < MaxInvoked
        /\ invoked' = invoked + 1
        /\ nextId <= MaxIds
        /\ savedConnections' =
             Append(savedConnections, NewConnection(connectionData, id, now))
        /\ nextId' = nextId + 1
        /\ pending' = [pending EXCEPT
                         ![i] = NewCall("addConnection", "write", id, connectionData)]
        /\ UNCHANGED <<connectionStatuses, file, now, lastCall, removed, acked,
                       writeFailures>>

StartRemoveConnection ==
  \E connectionId \in IdPool :
    LET i == FirstFree
        index == FindIndex(savedConnections, connectionId)
    IN  /\ i # 0
        /\ invoked < MaxInvoked
        /\ invoked' = invoked + 1
        /\ IF index = 0
           THEN /\ lastCall' = Returned("removeConnection", connectionId, NoRecord,
                                        NotFoundResult, FALSE, << >>)
                /\ UNCHANGED <<savedConnections, connectionStatuses, pending,
                               removed>>
           ELSE /\ savedConnections' = Splice(savedConnections, index)
                /\ removed' = [k \in removedIds \cup {connectionId} |->
                                 IF k = connectionId THEN FALSE ELSE removed[k]]
                /\ connectionStatuses' = StatusDelete(connectionStatuses, connectionId)
                /\ pending' = [Spliced(pending, connectionId) EXCEPT
                                 ![i] = NewCall("removeConnection", "write",
                                                connectionId, NoRecord)]
                /\ UNCHANGED lastCall
        /\ UNCHANGED <<file, nextId, now, acked, writeFailures>>

StartGetAllConnections ==
  LET i == FirstFree
  IN  /\ i # 0
      /\ invoked < MaxInvoked
      /\ invoked' = invoked + 1
      /\ pending' = [pending EXCEPT
                       ![i] = NewCall("getAllConnections", "read", NoArg, NoRecord)]
      /\ UNCHANGED <<savedConnections, connectionStatuses, file, nextId, now,
                     lastCall, removed, acked, writeFailures>>

StartTestConnection ==
  \E connectionId \in IdPool, drv \in AsyncDriverOutcomes :
    LET i == FirstFree
        index == FindIndex(savedConnections, connectionId)
    IN  /\ i # 0
        /\ invoked < MaxInvoked
        /\ invoked' = invoked + 1
        /\ IF index = 0
           THEN /\ drv = "connected"
                /\ lastCall' = Returned("testConnection", connectionId, NoRecord,
                                        NotFoundResult, FALSE, << >>)
                /\ UNCHANGED <<savedConnections, pending>>
           ELSE LET b == BeginTest(NewCall("testConnection", "driver", connectionId,
                                           savedConnections[index]),
                                   savedConnections, index, drv)
                IN  /\ b.call.drv = drv
                    /\ savedConnections' = b.conns
                    /\ pending' = [pending EXCEPT ![i] = b.call]
                    /\ UNCHANGED lastCall
        /\ UNCHANGED <<connectionStatuses, file, nextId, now, removed, acked,
                       writeFailures>>

StartTestAllConnections ==
  LET i == FirstFree
  IN  /\ i # 0
      /\ invoked < MaxInvoked
      /\ invoked' = invoked + 1
      /\ pending' = [pending EXCEPT
                       ![i] = NewCall("testAllConnections", "read", NoArg, NoRecord)]
      /\ UNCHANGED <<savedConnections, connectionStatuses, file, nextId, now,
                     lastCall, removed, acked, writeFailures>>

(* fs.readFile completes: the call holds what the file contained *)
ReadFile(i) ==
  /\ pending[i].op # "none"
  /\ pending[i].pc = "read"
  /\ pending' = [pending EXCEPT ![i].data = file, ![i].pc = "assign"]
  /\ UNCHANGED <<savedConnections, connectionStatuses, file, nextId, now,
                 lastCall, removed, acked, writeFailures, invoked>>

(* the continuation of loadSavedConnections and what follows it up to the   *)
(* next await on I/O *)
AssignLoaded(i) ==
  /\ pending[i].op # "none"
  /\ pending[i].pc = "assign"
  /\ LET c == pending[i]
         conns == loadSavedConnections(savedConnections, c.data)
         p == IF c.data.kind \in {"json", "ENOENT"}
              THEN Rebound(pending, savedConnections) ELSE pending
     IN  IF c.op = "getAllConnections"
         THEN /\ savedConnections' = conns
              /\ pending' = [p EXCEPT ![i] = NoCall]
              /\ lastCall' = Returned("getAllConnections", NoArg, NoRecord,
                                [success |-> TRUE,
                                 connections |-> sanitizeConnectionsForRenderer(conns)],
                                FALSE, << >>)
         ELSE \E drv \in AsyncDriverOutcomes :
                LET r == TestAllNext([c EXCEPT !.data = NoData, !.live = TRUE, !.k = 0],
                                     conns, drv)
                IN  /\ r.call.drv = drv
                    /\ TestAllStep(i, r, p)
  /\ UNCHANGED <<connectionStatuses, file, nextId, now, removed, acked,
                 writeFailures, invoked>>

(* the adapter returns its result: connection.lastTested is assigned and    *)
(* saveSavedConnections is called *)
DriverReturns(i) ==
  /\ pending[i].op # "none"
  /\ pending[i].pc = "driver"
  /\ Responds(pending[i].adapter, pending[i].drv)
  /\ LET c == pending[i]
         result == RunAdapter(c.adapter, c.config, AsyncScript(c.drv))
         index == FindIndex(savedConnections, c.id)
     IN  /\ savedConnections' =
               IF c.orphan THEN savedConnections
               ELSE ReplaceAt(savedConnections, index,
                              MarkTested(savedConnections[index], now))
         /\ pending' = [pending EXCEPT ![i].pc = "write", ![i].result = result,
                                       ![i].orphan = FALSE]
  /\ UNCHANGED <<connectionStatuses, file, nextId, now, lastCall, removed, acked,
                 writeFailures, invoked>>

(* fs.writeFile of saveSavedConnections completes or fails, and the handler *)
(* runs on to its return or to its next await on I/O *)
WriteFile(i) ==
  /\ pending[i].op # "none"
  /\ pending[i].pc = "write"
  /\ \E wr \in AsyncWriteOutcomes, drv \in AsyncDriverOutcomes :
       LET c == pending[i]
           res == IF wr = "ok"
                  THEN IF c.op = "addConnection"
                       THEN [success |-> TRUE,
                             connection |-> NewConnection(c.input, c.id, now)]
                       ELSE IF c.op = "removeConnection" THEN [success |-> TRUE]
                       ELSE c.result
                  ELSE ErrorResult(wr)
           tested == Testing(c) /\ wr = "ok"
       IN  /\ wr = "ok" \/ writeFailures < MaxWriteFailures
           /\ writeFailures' = writeFailures + Failed(wr)
           /\ file' = saveSavedConnections(savedConnections, file, wr)
           /\ connectionStatuses' =
                IF tested
                THEN StatusSet(connectionStatuses, c.id,
                               TestedStatus(c.result, TimeStamp(now)))
                ELSE connectionStatuses
           /\ acked' = IF c.op = "addConnection" /\ wr = "ok"
                       THEN acked \cup {c.id} ELSE acked
           /\ removed' = IF c.op = "removeConnection" /\ wr = "ok"
                         THEN [removed EXCEPT ![c.id] = TRUE]
                         ELSE removed
           /\ IF c.op = "testAllConnections"
              THEN LET r == TestAllNext(
                              [c EXCEPT !.results = Append(@, TestAllEntry(c.input, res))],
                              savedConnections, drv)
                   IN  /\ r.call.drv = drv
                       /\ TestAllStep(i, r, pending)
              ELSE /\ drv = "connected"
                   /\ pending' = [pending EXCEPT ![i] = NoCall]
                   /\ lastCall' = Returned(c.op, c.id, c.input, res, TRUE,
                                    IF c.op = "testConnection" /\ c.adapter # "none"
                                    THEN <<c.adapter>> ELSE << >>)
                   /\ UNCHANGED savedConnections
  /\ UNCHANGED <<nextId, now, invoked>>

Resume(i) == ReadFile(i) \/ AssignLoaded(i) \/ DriverReturns(i) \/ WriteFile(i)

NextAsync ==
  \/ StartAddConnection
  \/ StartRemoveConnection
  \/ StartGetAllConnections
  \/ StartTestConnection
  \/ StartTestAllConnections
  \/ \E i \in Slots : ReadFile(i)
  \/ \E i \in Slots : AssignLoaded(i)
  \/ \E i \in Slots : DriverReturns(i)
  \/ \E i \in Slots : WriteFile(i)

SpecAsync == Init /\ [][NextAsync]_vars

(* The event loop runs the continuation of every call whose I/O completed.  *)
SpecAsyncFair == SpecAsync /\ \A i \in Slots : WF_vars(Resume(i))

(* ============================ properties =============================== *)
ClearPasswords == {"p1", "p2"}

MutatingOps == {"addConnection", "removeConnection", "updateConnection"}

ReadAndTestOps == {"getAllConnections", "getAllConnectionStatuses",
                   "testConnection", "testAllConnections"}

PasswordOf(connections, connectionId) ==
  Get(connections[FindIndex(connections, connectionId)].config, "password")

ReturnedPasswords(call) ==
  IF call.op \in {"addConnection", "updateConnection"} /\ call.res.success
  THEN {Get(call.res.connection.config, "password")}
  ELSE IF call.op = "getAllConnections"
  THEN {Get(call.res.connections[i].config, "password") :
          i \in 1..Len(call.res.connections)}
  ELSE {}

(* C1: once removeConnection(id) has returned success, every later          *)
(* getConnectionStatus(id) returns the sentinel {success: null, message:    *)
(* 'Not tested yet'}: no status entry is left behind for a removed id.      *)
C1_RemovedIdHasNoStatus ==
  \A id \in removedIds :
    /\ getConnectionStatus(connectionStatuses, id) = NotTestedYet
    /\ (lastCall.op = "getConnectionStatus" /\ lastCall.id = id)
         => lastCall.res = NotTestedYet

C1_Witness ==
  /\ lastCall.op = "getConnectionStatus"
  /\ lastCall.id \in removedIds
  /\ removed[lastCall.id]

(* C2: once removeConnection(id) has returned success, no later             *)
(* getAllConnections() (which reloads the list from the file) returns a     *)
(* list containing id, whatever happened to other ids in between.           *)
C2_RemovedIdNotListed ==
  \A id \in removedIds :
    /\ id \notin IdsOf(getAllConnections(savedConnections, file,
                                         connectionStatuses).res.connections)
    /\ lastCall.op = "getAllConnections" => id \notin IdsOf(lastCall.res.connections)

C2_Witness ==
  /\ lastCall.op = "getAllConnections"
  /\ removedIds # {}
  /\ \E i \in 1..Len(lastCall.res.connections) :
       Get(lastCall.res.connections[i], "lastTested") # Null

(* C3: no result returned by a store operation contains the clear-text      *)
(* config.password of a stored record (two stores that differ only in a     *)
(* non-empty password return identical results).                            *)
C3_NoClearPasswordReturned == ReturnedPasswords(lastCall) \cap ClearPasswords = {}

(* C4: every record returned by getAllConnections() carries the placeholder *)
(* '***SAVED***' in place of a non-empty stored password and never the real *)
(* value, carries no password when none is stored, and is otherwise equal   *)
(* to the stored record.                                                    *)
C4_ListMasksPasswords ==
  lastCall.op = "getAllConnections" =>
    /\ Len(lastCall.res.connections) = Len(savedConnections)
    /\ \A i \in 1..Len(savedConnections) :
         LET stored == savedConnections[i]
             shown == lastCall.res.connections[i]
             pw == Get(stored.config, "password")
         IN  /\ Truthy(pw) => /\ Get(shown.config, "password") = PASSWORD_PLACEHOLDER
                              /\ Get(shown.config, "password") # pw
             /\ ~Truthy(pw) => Get(shown.config, "password") = Undefined
             /\ DOMAIN shown = DOMAIN stored
             /\ \A k \in (DOMAIN stored) \ {"config"} : shown[k] = stored[k]
             /\ (DOMAIN shown.config) \ {"password"} = (DOMAIN stored.config) \ {"password"}
             /\ \A k \in (DOMAIN stored.config) \ {"password"} :
                  shown.config[k] = stored.config[k]

C4_Witness ==
  /\ lastCall.op = "getAllConnections"
  /\ \E i \in 1..Len(savedConnections) :
       Get(savedConnections[i].config, "password") \in ClearPasswords
  /\ \E i \in 1..Len(savedConnections) :
       ~Truthy(Get(savedConnections[i].config, "password"))

(* C5: getAllConnections, getAllConnectionStatuses, testConnection and      *)
(* testAllConnections leave the config.password of every record, in memory  *)
(* and in the JSON file, equal to the value the last addConnection or       *)
(* updateConnection supplied: none of them changes a stored password.       *)
C5_ReadsKeepStoredPasswords ==
  [][lastCall'.op \in ReadAndTestOps =>
       /\ \A id \in IdsOf(savedConnections) \cap IdsOf(savedConnections') :
            PasswordOf(savedConnections', id) = PasswordOf(savedConnections, id)
       /\ \A id \in IdsOf(file.data) \cap IdsOf(file'.data) :
            PasswordOf(file'.data, id) = PasswordOf(file.data, id)]_vars

(* C6: on an empty store, a successful addConnection of a record with a     *)
(* non-empty password followed by getAllConnections() yields exactly one    *)
(* record: the supplied name, type and non-password config fields, a masked *)
(* password, the id addConnection returned (non-empty), lastTested null.    *)
C6_AddThenListRoundTrip ==
  [][(/\ lastCall.op = "addConnection"
      /\ lastCall.res.success
      /\ Len(savedConnections) = 1
      /\ Truthy(Get(lastCall.input.config, "password"))
      /\ lastCall'.op = "getAllConnections")
     => LET list == lastCall'.res.connections
            data == lastCall.input
        IN  /\ Len(list) = 1
            /\ Get(list[1], "name") = Get(data, "name")
            /\ Get(list[1], "type") = Get(data, "type")
            /\ \A k \in (DOMAIN data.config) \ {"password"} :
                 Get(list[1].config, k) = data.config[k]
            /\ (DOMAIN list[1].config) \ {"password"} \subseteq DOMAIN data.config
            /\ Get(list[1].config, "password") = PASSWORD_PLACEHOLDER
            /\ Get(list[1], "id") = lastCall.res.connection.id
            /\ Truthy(Get(list[1], "id"))
            /\ Get(list[1], "lastTested") = Null]_vars

C6_Witness ==
  /\ lastCall.op = "getAllConnections"
  /\ lastCall.afterEmptyAdd
  /\ Len(lastCall.res.connections) = 1
  /\ Get(lastCall.res.connections[1].config, "password") = PASSWORD_PLACEHOLDER

(* C7: testConnection(id) for an id that is not in the store returns        *)
(* {success: false, error: 'Connection not found'}, invokes no driver       *)
(* adapter and leaves the record list, the status map and the file          *)
(* unchanged.                                                               *)
C7_TestUnknownIdIsNotFound ==
  [][(lastCall'.op = "testConnection" /\ lastCall'.id \notin IdsOf(savedConnections))
     => /\ lastCall'.res = NotFoundResult
        /\ lastCall'.adapters = << >>
        /\ ~lastCall'.wrote
        /\ UNCHANGED <<savedConnections, connectionStatuses, file>>]_vars

C7_Witness ==
  /\ lastCall.op = "testConnection"
  /\ lastCall.res = NotFoundResult
  /\ Len(savedConnections) >= 1
  /\ DOMAIN connectionStatuses # {}

(* C8: removeConnection(id) and updateConnection(id, patch) for an id that  *)
(* is not in the store return {success: false, error: 'Connection not       *)
(* found'} and leave the record list, the status map and the file           *)
(* unchanged, issuing no write.                                             *)
C8_MutateUnknownIdIsNotFound ==
  [][(/\ lastCall'.op \in {"removeConnection", "updateConnection"}
      /\ lastCall'.id \notin IdsOf(savedConnections))
     => /\ lastCall'.res = NotFoundResult
        /\ ~lastCall'.wrote
        /\ UNCHANGED <<savedConnections, connectionStatuses, file>>]_vars

C8_Witness ==
  /\ lastCall.op = "removeConnection"
  /\ lastCall.res = NotFoundResult
  /\ ~lastCall.wrote
  /\ Len(savedConnections) >= 1
  /\ DOMAIN connectionStatuses # {}

(* C9: updateConnection(id, patch), also with a patch carrying id or        *)
(* createdAt, keeps the record's id and createdAt, keeps the number of      *)
(* records and modifies no other record.                                    *)
C9_UpdateKeepsIdentity ==
  [][(lastCall'.op = "updateConnection" /\ lastCall'.id \in IdsOf(savedConnections))
     => LET i == FindIndex(savedConnections, lastCall'.id)
        IN  /\ Len(savedConnections') = Len(savedConnections)
            /\ Get(savedConnections'[i], "id") = lastCall'.id
            /\ Get(savedConnections'[i], "createdAt")
                 = Get(savedConnections[i], "createdAt")
            /\ \A j \in 1..Len(savedConnections) :
                 j # i => savedConnections'[j] = savedConnections[j]]_vars

C9_Witness ==
  /\ lastCall.op = "updateConnection"
  /\ lastCall.res.success
  /\ Get(lastCall.res.connection, "name") = "Z"
  /\ Len(savedConnections) = 2

(* C10: whenever addConnection, removeConnection or updateConnection        *)
(* returns success, the file content equals the in-memory list, and a       *)
(* restart followed by getAllConnections() yields exactly the records of    *)
(* the mutations that had returned success.                                 *)
C10_WriteThroughDurable ==
  (lastCall.op \in MutatingOps /\ lastCall.res.success) =>
    /\ file.kind = "json"
    /\ file.data = JsonRoundTrip(savedConnections)
    /\ IdsOf(getAllConnections(<< >>, file, EmptyMap).res.connections) = acked

(* ----------------------- tests and their results ----------------------- *)
PossibleDriverResults(connection) ==
  {DriverResult(AdapterFor(connection), connection, drv) : drv \in DriverOutcomes}

SaveErrorResults == {ErrorResult(wr) : wr \in WriteOutcomes \ {"ok"}}

WellFormedResult(res) ==
  /\ "success" \in DOMAIN res
  /\ res.success \in BOOLEAN
  /\ ~res.success => ("error" \in DOMAIN res /\ Truthy(res.error))

Without(o, keys) == [k \in (DOMAIN o) \ keys |-> o[k]]

(* C11: after testConnection(id) on an existing id has returned a driver    *)
(* result (successful or failed), the record's lastTested is a non-null     *)
(* timestamp, the status map holds for id exactly that result with          *)
(* testedAt equal to the record's lastTested, and the file holds the same   *)
(* lastTested for the record.                                               *)
C11_TestRecordsResult ==
  [][(/\ lastCall'.op = "testConnection"
      /\ lastCall'.id \in IdsOf(savedConnections)
      /\ lastCall'.res \in PossibleDriverResults(
            savedConnections[FindIndex(savedConnections, lastCall'.id)]))
     => LET id == lastCall'.id
            lastTested == Get(savedConnections'[FindIndex(savedConnections', id)],
                              "lastTested")
        IN  /\ id \in IdsOf(savedConnections')
            /\ lastTested \notin {Null, Undefined}
            /\ id \in DOMAIN connectionStatuses'
            /\ connectionStatuses'[id]
                 = ObjectAssign(lastCall'.res, [testedAt |-> lastTested])
            /\ file'.kind = "json"
            /\ id \in IdsOf(file'.data)
            /\ Get(file'.data[FindIndex(file'.data, id)], "lastTested")
                 = lastTested]_vars

C11_Witness ==
  /\ lastCall.op = "testConnection"
  /\ lastCall.wrote
  /\ ~lastCall.res.success
  /\ "hint" \in DOMAIN lastCall.res
  /\ lastCall.id \in DOMAIN connectionStatuses
  /\ connectionStatuses[lastCall.id].testedAt = TimeStamp(now)

(* C12: a test of one connection, successful or failed, changes only that   *)
(* record's lastTested and that id's status entry: the number and order of  *)
(* records, every other record, every other id's status entry and the       *)
(* tested record's other fields are unchanged.                              *)
C12_TestChangesOnlyItsRecord ==
  [][(lastCall'.op = "testConnection" /\ lastCall'.id \in IdsOf(savedConnections))
     => LET id == lastCall'.id
            i == FindIndex(savedConnections, id)
        IN  /\ Len(savedConnections') = Len(savedConnections)
            /\ \A j \in 1..Len(savedConnections) :
                 j # i => savedConnections'[j] = savedConnections[j]
            /\ Without(savedConnections'[i], {"lastTested"})
                 = Without(savedConnections[i], {"lastTested"})
            /\ Without(connectionStatuses', {id}) = Without(connectionStatuses, {id})
       ]_vars

C12_Witness ==
  /\ lastCall.op = "testConnection"
  /\ lastCall.wrote
  /\ ~lastCall.res.success
  /\ Len(savedConnections) = 2
  /\ \E other \in DOMAIN connectionStatuses :
       other # lastCall.id /\ connectionStatuses[other].success

C14_TestAllInListOrder ==
  lastCall.op = "testAllConnections" =>
    /\ lastCall.res.success = TRUE
    /\ Len(lastCall.res.results) = Len(savedConnections)
    /\ \A i \in 1..Len(savedConnections) :
         LET entry == lastCall.res.results[i]
             conn == savedConnections[i]
             result == Without(entry, {"connectionId", "name", "type"})
         IN  /\ Get(entry, "connectionId") = Get(conn, "id")
             /\ Get(entry, "name") = Get(conn, "name")
             /\ Get(entry, "type") = Get(conn, "type")
             /\ result \in PossibleDriverResults(conn) \cup SaveErrorResults
             /\ result \in PossibleDriverResults(conn)
                  => connectionStatuses[Get(conn, "id")]
                       = TestedStatus(result, Get(conn, "lastTested"))

C14_Witness ==
  /\ lastCall.op = "testAllConnections"
  /\ Len(lastCall.res.results) = 2
  /\ lastCall.res.results[1].success
  /\ ~lastCall.res.results[2].success
  /\ lastCall.res.results[1].connectionId = "conn_1"

(* ------------- discovery, registry and adapter results ----------------- *)
InstancesIfFound(vendorResult) ==
  IF vendorResult.success THEN vendorResult.instances ELSE << >>

(* C15: discoverAllDatabases() tolerates partial failure: whichever of the  *)
(* four vendor discoveries fail, it returns success:true with the instances *)
(* of the vendors that did not fail, concatenated in the order mssql,       *)
(* mysql, postgresql, mongodb, count equal to the list length and byType    *)
(* holding each vendor's own list.                                          *)
C15_DiscoverAllToleratesFailure ==
  lastCall.op = "discoverAllDatabases" =>
    LET vendors == lastCall.input
        res == lastCall.res
    IN  /\ res.success = TRUE
        /\ res.instances = InstancesIfFound(vendors.mssql)
                             \o InstancesIfFound(vendors.mysql)
                             \o InstancesIfFound(vendors.postgresql)
                             \o InstancesIfFound(vendors.mongodb)
        /\ res.count = Len(res.instances)
        /\ res.byType.mssql = InstancesIfFound(vendors.mssql)
        /\ res.byType.mysql = InstancesIfFound(vendors.mysql)
        /\ res.byType.postgresql = InstancesIfFound(vendors.postgresql)
        /\ res.byType.mongodb = InstancesIfFound(vendors.mongodb)

C15_Witness ==
  /\ lastCall.op = "discoverAllDatabases"
  /\ lastCall.input.mssql.success
  /\ ~lastCall.input.mysql.success
  /\ ~lastCall.input.postgresql.success
  /\ lastCall.input.mongodb.success
  /\ Len(lastCall.res.byType.mssql) = 3
  /\ Len(lastCall.res.byType.mongodb) = 1
  /\ lastCall.res.count = 4

(* C16: discoverRegistryPaths(type, instance) returns exactly the candidate *)
(* (hive, path) pairs whose read succeeded, all current-user candidates in  *)
(* base-path order first and then the local-machine ones, and returns an    *)
(* empty array when no candidate is readable or the type has no candidates. *)
C16_RegistryPathsInOrder ==
  lastCall.op = "discoverRegistryPaths" =>
    LET res == lastCall.res
        basePaths == BasePaths(lastCall.input.dbType, InstanceName)
        Index(path) == CHOOSE k \in 1..Len(basePaths) : basePaths[k] = path
        Rank(p) == (IF p.hive = "HKCU" THEN 0 ELSE Len(basePaths)) + Index(p.path)
    IN  /\ \A i \in 1..Len(res) :
             /\ res[i].hive \in {"HKCU", "HKLM"}
             /\ \E k \in 1..Len(basePaths) : basePaths[k] = res[i].path
             /\ res[i].fullPath = res[i].hive \o res[i].path
             /\ res[i].fullPath \in lastCall.input.readable
        /\ \A hive \in {"HKCU", "HKLM"}, k \in 1..Len(basePaths) :
             (hive \o basePaths[k]) \in lastCall.input.readable
               => \E i \in 1..Len(res) :
                    res[i].hive = hive /\ res[i].path = basePaths[k]
        /\ \A i \in 1..Len(res), j \in 1..Len(res) :
             i < j => Rank(res[i]) < Rank(res[j])

C16_Witness ==
  /\ lastCall.op = "discoverRegistryPaths"
  /\ Len(lastCall.res) = 2
  /\ lastCall.res[1].hive = "HKCU"
  /\ lastCall.res[1].path = BasePaths(lastCall.input.dbType, InstanceName)[2]
  /\ lastCall.res[2].hive = "HKLM"
  /\ lastCall.res[2].path = BasePaths(lastCall.input.dbType, InstanceName)[1]
  /\ Cardinality(lastCall.input.readable) = 3

(* C17: fetchCredentialsFromRegistry(type, instance) reads the discovered   *)
(* paths in discovery order and returns success with the config and source  *)
(* of the first path whose read yields a non-empty value map; empty and     *)
(* unreadable paths are skipped and no path after that one is read.         *)
C17_FirstNonEmptyPathWins ==
  (lastCall.op = "fetchCredentialsFromRegistry" /\ lastCall.input.platform = "win32")
  => LET discovered == discoverRegistryPaths(lastCall.input.dbType, InstanceName,
                                             lastCall.input.readable)
         nonEmpty == {k \in 1..Len(discovered) :
                        lastCall.input.reread[discovered[k].fullPath] = "config"}
     IN  nonEmpty # {} =>
           LET first == CHOOSE k \in nonEmpty : \A j \in nonEmpty : k <= j
           IN  /\ lastCall.res.success = TRUE
               /\ lastCall.res.source = discovered[first].fullPath
               /\ lastCall.res.config = [Server |-> discovered[first].fullPath]
               /\ lastCall.adapters
                    = [i \in 1..first |-> discovered[i].fullPath]

C17_Witness ==
  /\ lastCall.op = "fetchCredentialsFromRegistry"
  /\ lastCall.res.success
  /\ Len(lastCall.adapters) = 2
  /\ lastCall.input.reread[lastCall.adapters[1]] = "empty"
  /\ lastCall.res.source = lastCall.adapters[2]

ManualEntryTexts ==
  {"No configuration found in registry. Please enter connection details manually.",
   "Registry keys found but no valid configuration. Please enter connection details manually."}

(* C18: whenever fetchCredentialsFromRegistry yields no configuration (no   *)
(* candidate path readable, or every readable path empty), it returns       *)
(* success:false, config null, an 'enter connection details manually' error *)
(* text and the list of the registry paths that were tried.                 *)
C18_NotFoundIsStructured ==
  (/\ lastCall.op = "fetchCredentialsFromRegistry"
   /\ lastCall.input.platform = "win32"
   /\ ~lastCall.res.success)
  => /\ Get(lastCall.res, "config") = Null
     /\ lastCall.res.error \in ManualEntryTexts
     /\ "discoveredPaths" \in DOMAIN lastCall.res

(* C19: every failed result of testMysqlConnection whose error is an        *)
(* access-denied error (code ER_ACCESS_DENIED_ERROR or a message containing *)
(* 'Access denied') carries a non-empty hint array, whether the denial      *)
(* occurred while connecting or while running the identity query.           *)
C19_AccessDeniedHasHint ==
  (/\ lastCall.op = "testMysqlConnection"
   /\ ~lastCall.res.success
   /\ \/ Get(lastCall.res, "code") = "ER_ACCESS_DENIED_ERROR"
      \/ lastCall.res.error \in AccessDeniedMessages)
  => /\ "hint" \in DOMAIN lastCall.res
     /\ Len(lastCall.res.hint) > 0

C19_Witness ==
  /\ lastCall.op = "testMysqlConnection"
  /\ lastCall.input.d.connect[1] = Ok
  /\ lastCall.input.d.query = Err(Undefined, AccessDeniedMessage)
  /\ lastCall.input.d.installed
  /\ lastCall.input.config.password = "p1"
  /\ ~lastCall.res.success
  /\ Len(lastCall.res.hint) = 4

AdapterOps == {"testMssqlConnection", "testMysqlConnection",
               "testPostgresqlConnection", "testMongodbConnection",
               "testOdbcConnection"}

(* C20: every failed connection-test result of a driver adapter (MSSQL,     *)
(* MySQL, PostgreSQL, MongoDB, ODBC direct, ODBC 32-bit bridge) carries a   *)
(* non-empty hint list besides the error message: hints of the recognised   *)
(* error class, or a generic hint list when no pattern matches.             *)
C20_FailuresCarryHints ==
  (lastCall.op \in AdapterOps /\ ~lastCall.res.success)
  => /\ "hint" \in DOMAIN lastCall.res
     /\ Len(lastCall.res.hint) > 0

(* C21: every driver adapter closes the connection it opened on every       *)
(* path: when a connect attempt of the call succeeded, the adapter has      *)
(* called close/end by the time it returns, whether the identity query      *)
(* succeeded or failed.                                                     *)
C21_OpenedConnectionIsClosed ==
  (lastCall.op \in AdapterOps
     /\ ConnectionOpened(lastCall.calls, lastCall.input.d))
  => ConnectionClosed(lastCall.calls)

(* C23: no retry inside a test: one call of an adapter makes at most one    *)
(* connection attempt; a failed attempt is the result of the call, with no  *)
(* further attempt in the same call.                                        *)
C23_AtMostOneConnectAttempt ==
  lastCall.op \in AdapterOps => ConnectAttempts(lastCall.calls) <= 1

(* C26: the 32-bit ODBC bridge decides its outcome from the SUCCESS, ERROR   *)
(* and HINT marker lines of the child's output, not from its exit code: the *)
(* same output gives the same success value whether the child exited with  *)
(* zero or not; a SUCCESS line gives success:true; otherwise the first      *)
(* ERROR: line gives success:false with that message and the HINT: lines    *)
(* as hints (a fixed generic list when there are none); output with no      *)
(* marker gives success:false.                                              *)
C26_BridgeDecidesByMarkers ==
  (/\ lastCall.op = "testOdbcConnection"
   /\ Truthy(Get(lastCall.input.config, "useOdbc"))
   /\ OdbcHasConnectionString(lastCall.input.config))
  => LET config == lastCall.input.config
         d == lastCall.input.d
         res == lastCall.res
         otherExit == [d EXCEPT !.exec = IF d.exec = "resolved" THEN "rejected"
                                         ELSE "resolved"]
     IN  /\ res.success = testOdbcConnection(config, otherExit).success
         /\ "SUCCESS" \in d.lines => res.success
         /\ ("SUCCESS" \notin d.lines /\ "ERROR" \in d.lines)
              => /\ ~res.success
                 /\ res.error = d.errorLine
                 /\ res.hint = IF "HINT" \in d.lines THEN <<d.hintLine>>
                                ELSE BridgeGeneralHints
         /\ (d.lines \cap {"SUCCESS", "ERROR"} = {}) => ~res.success

C26_Witness ==
  /\ lastCall.op = "testOdbcConnection"
  /\ Truthy(Get(lastCall.input.config, "useOdbc"))
  /\ OdbcHasConnectionString(lastCall.input.config)
  /\ lastCall.input.d.exec = "rejected"
  /\ lastCall.input.d.lines = {"SUCCESS", "HINT"}
  /\ lastCall.res.success

(* C29: a mutation that reports failure changes nothing: when               *)
(* addConnection, removeConnection, updateConnection or testConnection      *)
(* returns success:false because the file write failed, the in-memory list  *)
(* and the status map are the same as before the call.                      *)
C29_FailedMutationChangesNothing ==
  [][(/\ lastCall'.op \in {"addConnection", "removeConnection",
                           "updateConnection", "testConnection"}
      /\ lastCall'.res \in SaveErrorResults)
     => /\ savedConnections' = savedConnections
        /\ connectionStatuses' = connectionStatuses
    ]_vars

(* C30: reload semantics of getAllConnections(): a readable file with valid *)
(* content replaces the in-memory list by the file's content; a missing     *)
(* file resets memory to empty and an empty list is returned; an unreadable *)
(* or invalid file leaves memory unchanged and memory is what the call      *)
(* returns; in all three cases the call returns success:true and the status *)
(* map is unchanged.                                                        *)
C30_ReloadSemantics ==
  [][lastCall'.op = "getAllConnections"
     => /\ lastCall'.res.success
        /\ connectionStatuses' = connectionStatuses
        /\ file' = file
        /\ [i \in 1..Len(lastCall'.res.connections) |->
              lastCall'.res.connections[i].id]
             = [i \in 1..Len(savedConnections') |-> savedConnections'[i].id]
        /\ file.kind = "json" => savedConnections' = file.data
        /\ file.kind = "ENOENT" => savedConnections' = << >>
        /\ file.kind \notin {"json", "ENOENT"}
             => savedConnections' = savedConnections
    ]_vars

C30_Witness ==
  /\ lastCall.op = "getAllConnections"
  /\ file.kind = "corrupt"
  /\ Len(savedConnections) > 0
  /\ Len(lastCall.res.connections) = Len(savedConnections)

Quiet == \A i \in Slots : pending[i] = NoCall

(* C22: testAllConnections issues the tests of all saved connections        *)
(* concurrently: every test is started before any result is awaited, so    *)
(* while the call waits for a test, every record of the list it iterates    *)
(* over has had its test started.                                           *)
C22_TestAllStartsEveryTestFirst ==
  \A i \in Slots :
    (pending[i].op = "testAllConnections" /\ pending[i].pc \in {"driver", "write"})
    => pending[i].k = Len(IF pending[i].live THEN savedConnections
                          ELSE pending[i].list)

(* C24: every call eventually returns, also when an external party never    *)
(* responds: each external call is bounded by a timeout whose expiry is a   *)
(* normal success:false result.                                             *)
C24_EveryCallReturns ==
  \A i \in Slots : (pending[i].op # "none") ~> (pending[i].op = "none")

(* C27: no successful mutation is lost to a concurrent reload: once every   *)
(* call has completed, a record whose addConnection returned success and    *)
(* that was not removed is in the in-memory list and in the file, and a     *)
(* record whose removeConnection returned success is in neither.            *)
C27_NoMutationLostToReload ==
  Quiet =>
    /\ \A id \in acked \ removedIds :
         /\ id \in IdsOf(savedConnections)
         /\ file.kind = "json" /\ id \in IdsOf(file.data)
    /\ \A id \in {k \in removedIds : removed[k]} :
         /\ id \notin IdsOf(savedConnections)
         /\ file.kind = "json" => id \notin IdsOf(file.data)

(* C28: whenever no store operation is in flight, every key of the status   *)
(* map is the id of a record currently in the store; in particular a test   *)
(* that completes after removeConnection(id) leaves no entry for id.        *)
C28_StatusKeysAreStoredIds ==
  Quiet => DOMAIN connectionStatuses \subseteq IdsOf(savedConnections)

NativeTypes == {"mssql", "mysql", "postgresql", "mongodb"}

NotSupportedYet == [success |-> FALSE, error |-> "Database type is not supported yet"]

TestReturns == lastCall' # lastCall /\ lastCall'.op = "testConnection"
                 /\ lastCall'.record # NoRecord

(* the step that starts testConnection for a record no adapter is chosen for *)
UnsupportedTestStarts(i) ==
  /\ pending[i] = NoCall
  /\ pending'[i].op = "testConnection"
  /\ pending'[i].adapter = "none"

====
